---- MODULE Spec2Model ----
(***************************************************************************)
(* Model of src/pt/app.py: the pilot-rank widget service.                  *)
(*                                                                         *)
(* Text is modelled as sequences of one-character strings so that the      *)
(* string operations of the code (strip, lower, substring tests, int(),    *)
(* html.escape, sorting by name) are computed, not assumed.                *)
(***************************************************************************)
EXTENDS Integers, Sequences, FiniteSets, TLC

(***************************************************************************)
(* Characters and the str methods the program uses                         *)
(***************************************************************************)

\* The printable ASCII characters in code-point order: Ascii[i] has code i + 31
\* up to "_" (95) and code i + 32 from "a" (97) on; the grave accent (96), which
\* a TLA+ string cannot hold, is left out.
Ascii ==
  <<" ","!","\"","#","$","%","&","'","(",")","*","+",",","-",".","/","0","1","2","3","4","5","6","7","8","9",":",";","<","=",">","?","@","A","B","C","D","E","F","G","H","I","J","K","L","M","N","O","P","Q","R","S","T","U","V","W","X","Y","Z","[","\\","]","^","_","a","b","c","d","e","f","g","h","i","j","k","l","m","n","o","p","q","r","s","t","u","v","w","x","y","z","{","|","}","~">>

Whitespace == {" ", "\t", "\n", "\r", "\f"}

CharSet == {Ascii[i] : i \in 1..Len(Ascii)} \cup Whitespace

\* ord(c)
OrdOf ==
  [c \in CharSet |->
     IF c = "\t" THEN 9
     ELSE IF c = "\n" THEN 10
     ELSE IF c = "\f" THEN 12
     ELSE IF c = "\r" THEN 13
     ELSE LET i == CHOOSE j \in 1..Len(Ascii) : Ascii[j] = c
          IN IF i <= 64 THEN 31 + i ELSE 32 + i]

Ord(c) == OrdOf[c]

Chr(n) == IF n <= 95 THEN Ascii[n - 31] ELSE Ascii[n - 32]

IsDigit(c) == Ord(c) >= 48 /\ Ord(c) <= 57

IsUpper(c) == Ord(c) >= 65 /\ Ord(c) <= 90

IsLower(c) == Ord(c) >= 97 /\ Ord(c) <= 122

LowerChar(c) == IF IsUpper(c) THEN Chr(Ord(c) + 32) ELSE c

UpperChar(c) == IF IsLower(c) THEN Chr(Ord(c) - 32) ELSE c

\* str.lower()
Lower(s) == [i \in 1..Len(s) |-> LowerChar(s[i])]

\* str.capitalize(): first character upper-cased, the rest lower-cased
Capitalize(s) == [i \in 1..Len(s) |-> IF i = 1 THEN UpperChar(s[i]) ELSE LowerChar(s[i])]

\* str.strip(chars) for a set of characters
RECURSIVE LStripSet(_, _)
LStripSet(s, cs) ==
  IF s # <<>> /\ Head(s) \in cs THEN LStripSet(Tail(s), cs) ELSE s

RECURSIVE RStripSet(_, _)
RStripSet(s, cs) ==
  IF s # <<>> /\ s[Len(s)] \in cs THEN RStripSet(SubSeq(s, 1, Len(s) - 1), cs) ELSE s

StripSet(s, cs) == RStripSet(LStripSet(s, cs), cs)

\* str.strip()
Strip(s) == StripSet(s, Whitespace)

\* prefix test: s.startswith(p)
StartsWith(s, p) == Len(s) >= Len(p) /\ SubSeq(s, 1, Len(p)) = p

\* substring test: sub in s
Contains(s, sub) ==
  \E i \in 0..(Len(s) - Len(sub)) : SubSeq(s, i + 1, i + Len(sub)) = sub

\* s.replace(a, b) for single characters a and b
ReplaceChar(s, a, b) == [i \in 1..Len(s) |-> IF s[i] = a THEN b ELSE s[i]]

\* str.split(): the maximal runs of non-whitespace characters, in order
RECURSIVE SplitWords(_)
SplitWords(s) ==
  LET t == LStripSet(s, Whitespace) IN
  IF t = <<>> THEN <<>>
  ELSE LET n == IF \E i \in 1..Len(t) : t[i] \in Whitespace
                THEN (CHOOSE i \in 1..Len(t) :
                        /\ t[i] \in Whitespace
                        /\ \A j \in 1..(i - 1) : t[j] \notin Whitespace) - 1
                ELSE Len(t)
       IN <<SubSeq(t, 1, n)>> \o SplitWords(SubSeq(t, n + 1, Len(t)))

\* sep.join(parts)
RECURSIVE Join(_, _)
Join(sep, parts) ==
  IF parts = <<>> THEN <<>>
  ELSE IF Len(parts) = 1 THEN parts[1]
  ELSE parts[1] \o sep \o Join(sep, Tail(parts))

\* str < str: lexicographic by code point
RECURSIVE StrLess(_, _)
StrLess(a, b) ==
  IF b = <<>> THEN FALSE
  ELSE IF a = <<>> THEN TRUE
  ELSE IF Ord(Head(a)) < Ord(Head(b)) THEN TRUE
  ELSE IF Ord(Head(a)) > Ord(Head(b)) THEN FALSE
  ELSE StrLess(Tail(a), Tail(b))

\* html.escape(s): ampersand, angle brackets and both quotes become entities
EscapeChar(c) ==
  IF c = "&" THEN <<"&","a","m","p",";">>
  ELSE IF c = "<" THEN <<"&","l","t",";">>
  ELSE IF c = ">" THEN <<"&","g","t",";">>
  ELSE IF c = "\"" THEN <<"&","q","u","o","t",";">>
  ELSE IF c = "'" THEN <<"&","#","x","2","7",";">>
  ELSE <<c>>

RECURSIVE HtmlEscape(_)
HtmlEscape(s) ==
  IF s = <<>> THEN <<>> ELSE EscapeChar(Head(s)) \o HtmlEscape(Tail(s))

\* str(n) for n >= 0
RECURSIVE IntToStr(_)
IntToStr(n) ==
  IF n < 10 THEN <<Chr(48 + n)>> ELSE IntToStr(n \div 10) \o <<Chr(48 + (n % 10))>>

\* The digits of an int() literal: digits, single underscores allowed between them
IsIntBody(s) ==
  /\ s # <<>>
  /\ IsDigit(s[1]) /\ IsDigit(s[Len(s)])
  /\ \A i \in 1..Len(s) : IsDigit(s[i]) \/ s[i] = "_"
  /\ \A i \in 1..(Len(s) - 1) : ~(s[i] = "_" /\ s[i + 1] = "_")

RECURSIVE DigitsValue(_, _)
DigitsValue(s, acc) ==
  IF s = <<>> THEN acc
  ELSE IF Head(s) = "_" THEN DigitsValue(Tail(s), acc)
  ELSE DigitsValue(Tail(s), 10 * acc + (Ord(Head(s)) - 48))

\* int(s): [ok |-> FALSE] stands for ValueError
ParseInt(s) ==
  LET t == Strip(s)
      signed == t # <<>> /\ Head(t) \in {"+", "-"}
      body == IF signed THEN Tail(t) ELSE t
  IN IF IsIntBody(body)
     THEN [ok |-> TRUE,
           val |-> IF signed /\ Head(t) = "-" THEN 0 - DigitsValue(body, 0)
                   ELSE DigitsValue(body, 0)]
     ELSE [ok |-> FALSE, val |-> 0]

(***************************************************************************)
(* Constants and literals of the program                                   *)
(***************************************************************************)

AUTO_SEARCH_CACHE_DURATION == 300

MAX_TASKS_TO_CHECK == 15

\* 'ERROR:'
ErrorTag ==
  <<"E","R","R","O","R",":">>

\* 'ERROR: '
ErrorPrefix ==
  <<"E","R","R","O","R",":"," ">>

\* 'Could not fetch data'
CouldNotFetchData ==
  <<"C","o","u","l","d"," ","n","o","t"," ","f","e","t","c","h"," ","d","a","t","a">>

\* ' (Status: '
StatusOpen ==
  <<" ","(","S","t","a","t","u","s",":"," ">>

\* 'Task '
TaskWord ==
  <<"T","a","s","k"," ">>

\* " page not found for competition '"
PageNotFoundFor ==
  <<" ","p","a","g","e"," ","n","o","t"," ","f","o","u","n","d"," ","f","o","r"," ","c","o","m","p","e","t","i","t","i","o","n"," ","'">>

\* "' (404)."
NotFound404 ==
  <<"'"," ","(","4","0","4",")",".">>

\* 'ERROR: Results table structure not found or not as expected on page.'
TableStructureMsg ==
  <<"E","R","R","O","R",":"," ","R","e","s","u","l","t","s"," ","t","a","b","l","e"," ","s","t","r","u","c","t","u","r","e"," ","n","o","t"," ","f","o","u","n","d"," ","o","r"," ","n","o","t"," ","a","s"," ","e","x","p","e","c","t","e","d"," ","o","n"," ","p","a","g","e",".">>

\* 'ERROR: No pilot data found in the results table.'
NoPilotDataMsg ==
  <<"E","R","R","O","R",":"," ","N","o"," ","p","i","l","o","t"," ","d","a","t","a"," ","f","o","u","n","d"," ","i","n"," ","t","h","e"," ","r","e","s","u","l","t","s"," ","t","a","b","l","e",".">>

\* 'ERROR: Could not process page data. ('
CouldNotProcess ==
  <<"E","R","R","O","R",":"," ","C","o","u","l","d"," ","n","o","t"," ","p","r","o","c","e","s","s"," ","p","a","g","e"," ","d","a","t","a","."," ","(">>

\* 'not found'
NotFoundText ==
  <<"n","o","t"," ","f","o","u","n","d">>

\* 'Pilot ID or Pilot Name must be provided from form.'
MissingInputMsg ==
  <<"P","i","l","o","t"," ","I","D"," ","o","r"," ","P","i","l","o","t"," ","N","a","m","e"," ","m","u","s","t"," ","b","e"," ","p","r","o","v","i","d","e","d"," ","f","r","o","m"," ","f","o","r","m",".">>

\* 'Could not automatically find an active task. Please use Manual Selection on the form.'
NoActiveTaskMsg ==
  <<"C","o","u","l","d"," ","n","o","t"," ","a","u","t","o","m","a","t","i","c","a","l","l","y"," ","f","i","n","d"," ","a","n"," ","a","c","t","i","v","e"," ","t","a","s","k","."," ","P","l","e","a","s","e"," ","u","s","e"," ","M","a","n","u","a","l"," ","S","e","l","e","c","t","i","o","n"," ","o","n"," ","t","h","e"," ","f","o","r","m",".">>

\* "Pilot with ID '"
PilotWithId ==
  <<"P","i","l","o","t"," ","w","i","t","h"," ","I","D"," ","'">>

\* "Pilot named '"
PilotNamed ==
  <<"P","i","l","o","t"," ","n","a","m","e","d"," ","'">>

\* "' not found."
QuoteNotFound ==
  <<"'"," ","n","o","t"," ","f","o","u","n","d",".">>

\* 'http'
HttpPrefix ==
  <<"h","t","t","p">>

\* '(IN PROGRESS)'
InProgressMarker ==
  <<"(","I","N"," ","P","R","O","G","R","E","S","S",")">>

\* ' - Task '
DashTask ==
  <<" ","-"," ","T","a","s","k"," ">>

\* 'No data available.'
NoDataMsg ==
  <<"N","o"," ","d","a","t","a"," ","a","v","a","i","l","a","b","l","e",".">>

(***************************************************************************)
(* Optional values (None or a value) are sequences of length 0 or 1.       *)
(***************************************************************************)

None == <<>>

Some(x) == <<x>>

(***************************************************************************)
(* HTML access (BeautifulSoup)                                             *)
(*                                                                         *)
(* An element's content is the sequence of its text nodes.                 *)
(***************************************************************************)

\* Tag.get_text(sep, strip=True): the stripped, non-empty text nodes joined by sep
RECURSIVE StrippedNodes(_)
StrippedNodes(nodes) ==
  IF nodes = <<>> THEN <<>>
  ELSE (IF Strip(Head(nodes)) = <<>> THEN <<>> ELSE <<Strip(Head(nodes))>>)
       \o StrippedNodes(Tail(nodes))

GetText(nodes, sep) == Join(sep, StrippedNodes(nodes))

(***************************************************************************)
(* HTTP (requests)                                                         *)
(***************************************************************************)

\* Response.raise_for_status() raises HTTPError for a 4xx or 5xx status
RaisesForStatus(status) == status >= 400 /\ status < 600

\* bool(response) is response.ok: False for every status raise_for_status rejects
ResponseTruthy(status) == ~RaisesForStatus(status)

(***************************************************************************)
(* fetch_competitions: extraction of the competition list from the root    *)
(* page.  An anchor is [href |-> text, nodes |-> text nodes].              *)
(***************************************************************************)

SlugChar(c) == IsLower(c) \/ IsDigit(c) \/ c = "-"

\* [a-z0-9\-]+/? over the whole of t
IsSlugPath(t) ==
  LET body == IF t # <<>> /\ t[Len(t)] = "/" THEN SubSeq(t, 1, Len(t) - 1) ELSE t
  IN body # <<>> /\ \A i \in 1..Len(body) : SlugChar(body[i])

\* re.compile(r"^[a-z0-9\-]+/?$") searched in href; $ also matches before a final newline
MatchesSlugPattern(href) ==
  \/ IsSlugPath(href)
  \/ /\ href # <<>>
     /\ href[Len(href)] = "\n"
     /\ IsSlugPath(SubSeq(href, 1, Len(href) - 1))

\* ' '.join(word.capitalize() for word in name.replace('-', ' ').split()), with
\* the fallback for a formatted name shorter than 4 characters
FormattedName(name, href) ==
  LET words == SplitWords(ReplaceChar(name, "-", " "))
      formatted == Join(<<" ">>, [i \in 1..Len(words) |-> Capitalize(words[i])])
  IN IF Len(formatted) < 4
     THEN (IF Len(name) > 3 THEN name ELSE Capitalize(href))
     ELSE formatted

\* the condition of line 44
AcceptLink(href, name, found_slugs) ==
  /\ href # <<>>
  /\ name # <<>>
  /\ href \notin found_slugs
  /\ ~StartsWith(href, HttpPrefix)
  /\ Len(href) > 3

\* the loop over potential_links, lines 42-47
RECURSIVE CollectCompetitions(_, _, _)
CollectCompetitions(links, competitions, found_slugs) ==
  IF links = <<>> THEN competitions
  ELSE LET link == Head(links)
           href == StripSet(link.href, {"/"})
           name == GetText(link.nodes, <<>>)
       IN IF MatchesSlugPattern(link.href) /\ AcceptLink(href, name, found_slugs)
          THEN CollectCompetitions(
                 Tail(links),
                 Append(competitions, [slug |-> href, name |-> FormattedName(name, href)]),
                 found_slugs \cup {href})
          ELSE CollectCompetitions(Tail(links), competitions, found_slugs)

\* list.sort(key=name) is stable: x goes after every element whose name is not greater
RECURSIVE InsertByName(_, _)
InsertByName(sorted, x) ==
  IF sorted = <<>> THEN <<x>>
  ELSE IF StrLess(x.name, Head(sorted).name) THEN <<x>> \o sorted
  ELSE <<Head(sorted)>> \o InsertByName(Tail(sorted), x)

RECURSIVE SortByName(_)
SortByName(competitions) ==
  IF competitions = <<>> THEN <<>>
  ELSE InsertByName(SortByName(SubSeq(competitions, 1, Len(competitions) - 1)),
                    competitions[Len(competitions)])

ExtractCompetitions(links) == SortByName(CollectCompetitions(links, <<>>, {}))

(***************************************************************************)
(* find_active_task: the pure parts                                        *)
(***************************************************************************)

\* CacheFresh with the age compared by <= : a value exactly TTL old still counts
CacheFreshInclusive(cache, now) ==
  /\ cache.data # None
  /\ now - cache.timestamp <= AUTO_SEARCH_CACHE_DURATION

\* line 58: the cached data is truthy and younger than the TTL
CacheFresh(cache, now) ==
  /\ cache.data # None
  /\ now - cache.timestamp < AUTO_SEARCH_CACHE_DURATION

\* line 74: f"Task {task_num}" in h2_text and "(IN PROGRESS)" in h2_text
HeadingMatches(h2_text, task_num) ==
  /\ Contains(h2_text, TaskWord \o IntToStr(task_num))
  /\ Contains(h2_text, InProgressMarker)

\* lines 71-74: some h2 of the page matches
PageShowsActive(h2_tags, task_num) ==
  \E i \in 1..Len(h2_tags) : HeadingMatches(GetText(h2_tags[i], <<" ">>), task_num)

(***************************************************************************)
(* fetch_and_parse_task_results.  A caught RequestException e is modelled  *)
(* by e.response: None (timeout, connection error) or Some(status).        *)
(* The function returns a str or a list:                                   *)
(*   [str |-> TRUE, text |-> message, rows |-> <<>>] or                    *)
(*   [str |-> FALSE, text |-> <<>>, rows |-> parsed_results].              *)
(***************************************************************************)

ErrorResult(text) == [str |-> TRUE, text |-> text, rows |-> <<>>]

RowsResult(rows) == [str |-> FALSE, text |-> <<>>, rows |-> rows]

\* hasattr(e, 'response') and e.response: the truthiness of the response object
HasTruthyResponse(e_response) ==
  e_response # None /\ ResponseTruthy(e_response[1])

\* lines 95-98
FetchErrorMessage(e_response, competition_slug, task_number) ==
  LET status_code == IF HasTruthyResponse(e_response)
                     THEN StatusOpen \o IntToStr(e_response[1]) \o <<")">>
                     ELSE <<>>
      error_msg == IF HasTruthyResponse(e_response) /\ e_response[1] = 404
                   THEN TaskWord \o task_number \o PageNotFoundFor
                        \o competition_slug \o NotFound404
                   ELSE CouldNotFetchData \o status_code \o <<".">>
  IN ErrorPrefix \o error_msg

\* the number of cells of a row that hold text
NonEmptyCells(row) ==
  Cardinality({j \in 1..Len(row.cells) : GetText(row.cells[j], <<>>) # <<>>})

\* IsPilotRow counting non-empty cells anywhere in the row, not testing the first three
IsPilotRowAnyThreeCells(row) == ~row.th /\ NonEmptyCells(row) >= 3

\* lines 104-109: a row without th, more than 2 cells, the first three non-empty
IsPilotRow(row) ==
  /\ ~row.th
  /\ Len(row.cells) > 2
  /\ GetText(row.cells[1], <<>>) # <<>>
  /\ GetText(row.cells[2], <<>>) # <<>>
  /\ GetText(row.cells[3], <<>>) # <<>>

PilotOfRow(row) ==
  [rank |-> GetText(row.cells[1], <<>>),
   id   |-> GetText(row.cells[2], <<>>),
   name |-> GetText(row.cells[3], <<>>)]

\* lines 103-110
RECURSIVE ParseRows(_)
ParseRows(rows) ==
  IF rows = <<>> THEN <<>>
  ELSE (IF IsPilotRow(Head(rows)) THEN <<PilotOfRow(Head(rows))>> ELSE <<>>)
       \o ParseRows(Tail(rows))

\* lines 100-113: all_result_tables is the sequence of class 'result' tables
ParseResultTables(all_result_tables) ==
  IF Len(all_result_tables) < 2 THEN ErrorResult(TableStructureMsg)
  ELSE LET parsed_results == ParseRows(all_result_tables[2])
       IN IF parsed_results = <<>> THEN ErrorResult(NoPilotDataMsg)
          ELSE RowsResult(parsed_results)

\* isinstance(results_data, str) and results_data.startswith("ERROR:")
IsErrorResult(results_data) ==
  results_data.str /\ StartsWith(results_data.text, ErrorTag)

(***************************************************************************)
(* generate_html_page.  The page is modelled by its variable parts.        *)
(* A str | None argument is passed as text, None as the empty text: the    *)
(* function only tests these arguments for truthiness.                     *)
(***************************************************************************)

\* RankColor with the green band reaching 50
RankColorGreenTo50(rank) ==
  LET r == ParseInt(rank)
  IN IF ~r.ok THEN "black"
     ELSE IF r.val = 1 THEN "gold"
     ELSE IF 2 <= r.val /\ r.val <= 50 THEN "limegreen"
     ELSE IF r.val >= 50 THEN "red"
     ELSE "black"

\* lines 125-130
RankColor(rank) ==
  LET r == ParseInt(rank)
  IN IF ~r.ok THEN "black"
     ELSE IF r.val = 1 THEN "gold"
     ELSE IF 2 <= r.val /\ r.val <= 49 THEN "limegreen"
     ELSE IF r.val >= 50 THEN "red"
     ELSE "black"

\* a page: the element shown, the rank colour, the escaped text, the escaped context
\* line, and for the configuration form its message and competition options
Page(display, color, text, context) ==
  [display |-> display, color |-> color, text |-> text, context |-> context,
   message |-> "", options |-> <<>>]

generate_html_page(rank, error, competition_display_name, task_number) ==
  LET context_html ==
        IF competition_display_name # <<>> /\ task_number # <<>>
        THEN HtmlEscape(competition_display_name) \o DashTask \o HtmlEscape(task_number)
        ELSE <<>>
  IN IF rank # <<>>
     THEN Page("rank-display", RankColor(rank), HtmlEscape(rank), context_html)
     ELSE IF error # <<>>
     THEN Page("error-display", "black", HtmlEscape(error), context_html)
     ELSE Page("error-display", "black", NoDataMsg, context_html)

(***************************************************************************)
(* handle_form_submission_rank and landing_or_auto_rank: the pure parts    *)
(***************************************************************************)

\* SearchMode without the final else: name mode whenever no id is given
SearchModeNameDefault(pilot_id_input, pilot_name_input) ==
  IF pilot_id_input # <<>> THEN "id" ELSE "name"

\* lines 259-262: "none" is the early return with status 400
SearchMode(pilot_id_input, pilot_name_input) ==
  IF pilot_id_input # <<>> THEN "id"
  ELSE IF pilot_name_input # <<>> THEN "name"
  ELSE "none"

\* lines 298-299
PilotMatches(pilot, search_mode, search_value) ==
  \/ search_mode = "id" /\ pilot.id = search_value
  \/ /\ search_mode = "name"
     /\ ~(search_mode = "id" /\ pilot.id = search_value)
     /\ Lower(Strip(pilot.name)) = Lower(Strip(search_value))

\* lines 295-301: the first matching row, or None
RECURSIVE FindPilot(_, _, _)
FindPilot(results_data, search_mode, search_value) ==
  IF results_data = <<>> THEN None
  ELSE IF PilotMatches(Head(results_data), search_mode, search_value)
  THEN Some(Head(results_data))
  ELSE FindPilot(Tail(results_data), search_mode, search_value)

\* lines 284-287 and 226-229: the display name of a slug
RECURSIVE NameOfSlug(_, _)
NameOfSlug(competitions, slug) ==
  IF competitions = <<>> THEN slug
  ELSE IF Head(competitions).slug = slug THEN Head(competitions).name
  ELSE NameOfSlug(Tail(competitions), slug)

DisplayName(cache, slug) ==
  IF cache # None THEN NameOfSlug(cache[1], slug) ELSE slug

\* line 292
ErrorStatus(results_data) ==
  IF Contains(Lower(results_data.text), NotFoundText) THEN 404 ELSE 500

\* line 293: results_data.replace("ERROR: ", "")
RECURSIVE RemoveAll(_, _)
RemoveAll(s, sub) ==
  IF Len(s) < Len(sub) THEN s
  ELSE IF SubSeq(s, 1, Len(sub)) = sub THEN RemoveAll(SubSeq(s, Len(sub) + 1, Len(s)), sub)
  ELSE <<Head(s)>> \o RemoveAll(Tail(s), sub)

(***************************************************************************)
(* Bounds of the model and the inputs drawn from the environment           *)
(***************************************************************************)

\* time.time() when the process starts
StartTime == 1000

\* the clock visits StartTime plus up to MaxTtlSteps intervals of TTL - 1 or TTL seconds
MaxTtlSteps == 1

\* a root page carries at most MaxLinks anchors
MaxLinks == 2

\* request-handling threads
NumThreads == 2

Threads == 1..NumThreads

Times ==
  UNION {{StartTime + k * (AUTO_SEARCH_CACHE_DURATION - 1) + j : j \in 0..k} : k \in 0..MaxTtlSteps}

\* sample texts
SlugAlps == <<"a","l","p","s">>

SlugBern == <<"b","e","r","n">>

Id7 == <<"7">>

Id9 == <<"9">>

\* anchors a root page may carry
LinkPool ==
  { [href |-> SlugAlps \o <<"/">>, nodes |-> << <<" ","z","e","t","a","-","c","U","P","\n">> >>],
    [href |-> SlugBern,            nodes |-> << <<"a","b">> >>],
    [href |-> <<"a","b","c">>,     nodes |-> << <<"t","i","n","y">> >>],
    [href |-> <<"A",".","h","t","m","l">>, nodes |-> << <<"h","o","m","e">> >>] }

RECURSIVE SeqsUpTo(_, _)
SeqsUpTo(S, n) ==
  IF n = 0 THEN {<<>>}
  ELSE LET shorter == SeqsUpTo(S, n - 1)
       IN shorter \cup {Append(q, x) : q \in shorter, x \in S}

\* what a GET can produce besides a page: exc is the exception requests.get raises
\* ("none": a response arrived), status the response status, broken a page whose
\* parsing raises
Reply(exc, status, broken, body) ==
  [exc |-> exc, status |-> status, broken |-> broken, body |-> body]

FailedReplies ==
  { Reply("timeout", 0, FALSE, <<>>), Reply("connection", 0, FALSE, <<>>),
    Reply("none", 404, FALSE, <<>>), Reply("none", 500, FALSE, <<>>),
    Reply("none", 200, TRUE, <<>>) }

RootReplies ==
  FailedReplies \cup {Reply("none", 200, FALSE, links) : links \in SeqsUpTo(LinkPool, MaxLinks)}

\* h2 elements of a task page, each a sequence of text nodes
H2Pool ==
  { <<>>,
    << << TaskWord \o <<"1">>, InProgressMarker >> >>,
    << << TaskWord \o <<"2">> >> >>,
    << << <<"R","e","s","u","l","t","s">> >>, << TaskWord \o <<"1","5"," ">> \o InProgressMarker >> >> }

ProbeReplies == FailedReplies \cup {Reply("none", 200, FALSE, h2) : h2 \in H2Pool}

Cell(text) == << text >>

Row(th, cells) == [th |-> th, cells |-> cells]

HeaderRow == Row(TRUE, <<Cell(<<"#">>), Cell(<<"I","D">>), Cell(<<"N","a","m","e">>)>>)

RowAl1 == Row(FALSE, <<Cell(<<"1">>), Cell(Id7), Cell(<<" ","a","l"," ","b"," ">>), Cell(<<"9","9">>)>>)

RowBo50 == Row(FALSE, <<Cell(<<"5","0">>), Cell(Id9), Cell(<<"B","o">>)>>)

RowDup == Row(FALSE, <<Cell(<<"D","N","F">>), Cell(Id7), Cell(<<"A","L"," ","B">>)>>)

RowNoRank == Row(FALSE, <<Cell(<<" ">>), Cell(Id9), Cell(<<"B","o">>), Cell(<<"3">>)>>)

RowShort == Row(FALSE, <<Cell(<<"2">>), Cell(Id9)>>)

\* the class 'result' tables of a task page
TablesPool ==
  { <<>>,
    << <<HeaderRow, RowAl1>> >>,
    << <<HeaderRow>>, <<HeaderRow, RowNoRank, RowShort>> >>,
    << <<RowBo50>>, <<HeaderRow, RowAl1, RowDup>> >>,
    << <<HeaderRow>>, <<RowBo50, RowNoRank>> >> }

ResultReplies == FailedReplies \cup {Reply("none", 200, FALSE, t) : t \in TablesPool}

\* query parameters and cookie values as received (before strip)
PilotIdPool == {<<>>, <<" ">>, Id7 \o <<" ">>}

PilotNamePool == {<<>>, <<" ","a","L"," ","b">>}

CompetitionPool == {<<>>, SlugAlps}

TaskPool == {<<>>, <<"1">>}

CookiePool == {<<>>, Id7}

(***************************************************************************)
(* State                                                                   *)
(***************************************************************************)

VARIABLES
  competitions_cache,  \* None, or Some(list of [slug, name])
  active_task_cache,   \* [data |-> None or Some(active_task_info), timestamp |-> seconds]
  clock,               \* time.time()
  serving,             \* the application accepts requests
  lister_returned,     \* history: some call of fetch_competitions has returned
  th,                  \* per thread: program counter, locals and the history of the request
  calc,                \* a pure function applied on its own: its input and its result
  upstream             \* the scoring site: what it answers to a GET

vars ==
  <<competitions_cache, active_task_cache, clock, serving, lister_returned, th, calc, upstream>>

NoReply == Reply("unsent", 0, FALSE, <<>>)

NoProbe == [slug |-> <<>>, task_num |-> 0, reply |-> NoReply]

\* a site whose pages change between any two requests: every GET may bring any reply
AnyUpstream == [fixed |-> FALSE, root |-> NoReply, pages |-> <<>>, tables |-> <<>>]

\* a site that does not change: root is the reply to the GET of BASE_URL, pages[slug][n]
\* the reply to the GET of {slug}/task{n}.html as the search reads it (its h2 elements),
\* tables the class 'result' tables every task page that arrives carries
Site(root, pages, tables) == [fixed |-> TRUE, root |-> root, pages |-> pages, tables |-> tables]

\* the reply of a fixed site for {slug}/task{n}.html: a page it does not hold is a 404
PageReply(u, slug, n) ==
  IF slug \in DOMAIN u.pages /\ n \in 1..Len(u.pages[slug])
  THEN u.pages[slug][n]
  ELSE Reply("none", 404, FALSE, <<>>)

\* line 38: what requests.get(BASE_URL) can bring
RootAnswers(u) == IF u.fixed THEN {u.root} ELSE RootReplies

\* line 68: what requests.get(task_url) can bring
ProbeAnswers(u, slug, task_num) ==
  IF u.fixed THEN {PageReply(u, slug, task_num)} ELSE ProbeReplies

\* line 92: what requests.get(url) can bring; the url is that of line 66, so a fixed
\* site fails as it does for the search, and a page that arrives carries its tables
ResultAnswers(u, slug, task_number) ==
  IF ~u.fixed THEN ResultReplies
  ELSE LET n == ParseInt(task_number)
           page == IF n.ok /\ IntToStr(n.val) = task_number
                   THEN PageReply(u, slug, n.val)
                   ELSE Reply("none", 404, FALSE, <<>>)
       IN IF page.exc = "none" /\ page.status = 200 /\ ~page.broken
          THEN {Reply("none", 200, FALSE, u.tables)}
          ELSE {page}

NoCalc == [fn |-> "none", tables |-> <<>>, rank |-> <<>>, result |-> RowsResult(<<>>),
           page |-> Page("none", "none", <<>>, <<>>)]

NoResponse == [status |-> 0, page |-> Page("none", "none", <<>>, <<>>), cookie |-> None]

Idle ==
  [pc |-> "idle", route |-> "none",
   competition_slug |-> <<>>, task |-> <<>>, pilot_id_input |-> <<>>, pilot_name_input |-> <<>>,
   saved_pilot_id |-> <<>>,
   search_mode |-> "none", search_value |-> <<>>, comp_to_use |-> <<>>, task_to_use |-> <<>>,
   competition_display_name |-> <<>>, message |-> "",
   now |-> 0, competitions |-> <<>>, fc_caller |-> "none", comp_idx |-> 0, task_num |-> 0,
   active_task_info |-> None, found |-> None, response |-> NoResponse,
   \* history of the request
   start_comps |-> None, start_cache |-> [data |-> None, timestamp |-> 0],
   entry_cache |-> [data |-> None, timestamp |-> 0],
   fetched |-> {}, probe |-> NoProbe, got |-> NoReply,
   \* history of the search that runs or has just returned: the GETs of task pages
   probes |-> 0]

Init ==
  /\ competitions_cache = None
  /\ active_task_cache = [data |-> None, timestamp |-> 0]
  /\ clock = StartTime
  /\ serving = FALSE
  /\ lister_returned = FALSE
  /\ th = [p \in Threads |-> Idle]
  /\ calc = NoCalc
  /\ upstream = AnyUpstream

Set(p, r) == th' = [th EXCEPT ![p] = r]

\* a Flask response: status, page and the cookie it sets (None: no Set-Cookie)
Respond(status, page, cookie) == [status |-> status, page |-> page, cookie |-> cookie]

\* an exception that escapes the view function: Flask answers 500
InternalServerError == Respond(500, Page("internal-server-error", "none", <<>>, <<>>), None)

(***************************************************************************)
(* Process start and the clock                                             *)
(***************************************************************************)

\* lines 321-324: run as a script, the list is pre-fetched before app.run
Main(p) ==
  /\ ~serving
  /\ th[p].pc = "idle"
  /\ \A q \in Threads : th[q].pc = "idle"
  /\ Set(p, [th[p] EXCEPT !.pc = "fc_entry", !.route = "main", !.fc_caller = "main",
                          !.start_comps = competitions_cache,
                          !.start_cache = active_task_cache])
  /\ UNCHANGED <<upstream, calc, competitions_cache, active_task_cache, clock, serving, lister_returned>>

\* served by a WSGI server that imports the module: no pre-fetch
Serve ==
  /\ ~serving
  /\ \A q \in Threads : th[q].pc = "idle"
  /\ serving' = TRUE
  /\ UNCHANGED <<upstream, calc, competitions_cache, active_task_cache, clock, lister_returned, th>>

Tick ==
  /\ \E t \in Times : t > clock /\ clock' = t
  /\ UNCHANGED <<upstream, calc, competitions_cache, active_task_cache, serving, lister_returned, th>>

(***************************************************************************)
(* fetch_competitions, lines 32-52                                         *)
(***************************************************************************)

\* CompetitionsCached testing truthiness: a cached empty list counts as no cache
CompetitionsCachedTruthy(cache) == cache # None /\ cache[1] # <<>>

\* line 34
CompetitionsCached(cache) == cache # None

\* where fetch_competitions returns to
AfterFetchCompetitions(caller) ==
  IF caller = "find_active_task" THEN "fat_comps"
  ELSE IF caller = "form" THEN "form_render"
  ELSE "main_done"

\* line 34: the cached list is returned, else the fetch follows
FcEntry(p) ==
  /\ th[p].pc = "fc_entry"
  /\ IF CompetitionsCached(competitions_cache)
     THEN /\ Set(p, [th[p] EXCEPT !.pc = AfterFetchCompetitions(th[p].fc_caller),
                                  !.competitions = competitions_cache[1]])
          /\ lister_returned' = TRUE
     ELSE /\ Set(p, [th[p] EXCEPT !.pc = "fc_get"])
          /\ UNCHANGED lister_returned
  /\ UNCHANGED <<upstream, calc, competitions_cache, active_task_cache, clock, serving>>

\* lines 36-48 and 52: GET of the site root; any exception returns [] and leaves the cache
FcGet(p) ==
  /\ th[p].pc = "fc_get"
  /\ \E reply \in RootAnswers(upstream) :
       IF reply.exc # "none" \/ RaisesForStatus(reply.status) \/ reply.broken
       THEN /\ Set(p, [th[p] EXCEPT !.pc = AfterFetchCompetitions(th[p].fc_caller),
                                    !.competitions = <<>>,
                                    !.fetched = @ \cup {"root"}])
            /\ lister_returned' = TRUE
       ELSE /\ Set(p, [th[p] EXCEPT !.pc = "fc_store",
                                    !.competitions = ExtractCompetitions(reply.body),
                                    !.fetched = @ \cup {"root"}])
            /\ UNCHANGED lister_returned
  /\ UNCHANGED <<upstream, calc, competitions_cache, active_task_cache, clock, serving>>

\* lines 49-51: the list, empty or not, is stored and the cache is returned
FcStore(p) ==
  /\ th[p].pc = "fc_store"
  /\ competitions_cache' = Some(th[p].competitions)
  /\ Set(p, [th[p] EXCEPT !.pc = AfterFetchCompetitions(th[p].fc_caller)])
  /\ lister_returned' = TRUE
  /\ UNCHANGED <<upstream, calc, active_task_cache, clock, serving>>

\* line 324: app.run
MainDone(p) ==
  /\ th[p].pc = "main_done"
  /\ Set(p, Idle)
  /\ serving' = TRUE
  /\ UNCHANGED <<upstream, calc, competitions_cache, active_task_cache, clock, lister_returned>>

(***************************************************************************)
(* find_active_task, lines 56-85                                           *)
(***************************************************************************)

\* lines 57-60: now is read once; a fresh cached task is returned without a search
FatEntry(p) ==
  /\ th[p].pc = "fat_entry"
  /\ IF CacheFresh(active_task_cache, clock)
     THEN Set(p, [th[p] EXCEPT !.pc = "fat_ret", !.now = clock,
                               !.active_task_info = active_task_cache.data,
                               !.entry_cache = active_task_cache])
     ELSE Set(p, [th[p] EXCEPT !.pc = "fc_entry", !.now = clock,
                               !.fc_caller = "find_active_task",
                               !.entry_cache = active_task_cache])
  /\ UNCHANGED <<upstream, calc, competitions_cache, active_task_cache, clock, serving, lister_returned>>

\* line 62: an empty list ends the search, nothing is cached
FatComps(p) ==
  /\ th[p].pc = "fat_comps"
  /\ IF th[p].competitions = <<>>
     THEN Set(p, [th[p] EXCEPT !.pc = "fat_ret", !.active_task_info = None])
     ELSE Set(p, [th[p] EXCEPT !.pc = "fat_probe", !.comp_idx = 1, !.task_num = 1])
  /\ UNCHANGED <<upstream, calc, competitions_cache, active_task_cache, clock, serving, lister_returned>>

\* lines 68-82: what one probe of task_num comes to
ProbeOutcome(reply, task_num) ==
  IF reply.exc = "timeout" THEN "timeout"
  ELSE IF reply.exc # "none" THEN "request_error"
  ELSE IF reply.status = 404 THEN "not_found"
  ELSE IF RaisesForStatus(reply.status) THEN "request_error"
  ELSE IF reply.broken THEN "parse_error"
  ELSE IF PageShowsActive(reply.body, task_num) THEN "active"
  ELSE "no_match"

\* EndsCompetition breaking on every failed response, not only on 404
EndsCompetitionOnError(outcome) == outcome \in {"not_found", "request_error"}

\* line 69: break, the inner loop over the tasks of this competition ends
EndsCompetition(outcome) == outcome = "not_found"

\* line 78: return, the search ends with the task
EndsSearch(outcome) == outcome = "active"

\* HasNextTask with the range one task longer: range(1, MAX_TASKS_TO_CHECK + 2)
HasNextTaskTo16(task_num) == task_num <= MAX_TASKS_TO_CHECK

\* line 65: range(1, MAX_TASKS_TO_CHECK + 1) has a next task number
HasNextTask(task_num) == task_num < MAX_TASKS_TO_CHECK

\* the loops of lines 63 and 65 after a probe that did not find the task
AfterProbe(t, outcome) ==
  IF ~EndsCompetition(outcome) /\ HasNextTask(t.task_num)
  THEN [t EXCEPT !.task_num = @ + 1]
  ELSE IF t.comp_idx < Len(t.competitions)
  THEN [t EXCEPT !.comp_idx = @ + 1, !.task_num = 1]
  ELSE [t EXCEPT !.pc = "fat_store_data", !.active_task_info = None]

\* lines 66-82: one GET of {comp_slug}/task{task_num}.html; counted: the history of
\* the search counts the GET
ProbeStep(p, counted) ==
  /\ th[p].pc = "fat_probe"
  /\ \E reply \in ProbeAnswers(upstream, th[p].competitions[th[p].comp_idx].slug,
                                 th[p].task_num) :
       LET comp_slug == th[p].competitions[th[p].comp_idx].slug
           outcome == ProbeOutcome(reply, th[p].task_num)
           probed == [th[p] EXCEPT
                        !.fetched = @ \cup {"probe"},
                        !.probes = IF counted THEN @ + 1 ELSE @,
                        !.probe = [slug |-> comp_slug, task_num |-> th[p].task_num,
                                   reply |-> reply]]
       IN IF EndsSearch(outcome)
          THEN Set(p, [probed EXCEPT
                         !.pc = "fat_store_data",
                         !.active_task_info =
                            Some([competition_slug |-> comp_slug,
                                  task_number |-> IntToStr(th[p].task_num)])])
          ELSE Set(p, AfterProbe(probed, outcome))
  /\ UNCHANGED <<upstream, calc, competitions_cache, active_task_cache, clock, serving, lister_returned>>

FatProbe(p) == ProbeStep(p, FALSE)

FatProbeCounted(p) == ProbeStep(p, TRUE)

\* FatStoreData with the assignment of line 84 whatever the search found
FatStoreDataMiss(p) ==
  /\ th[p].pc = "fat_store_data"
  /\ active_task_cache' = [active_task_cache EXCEPT !.data = None]
  /\ Set(p, [th[p] EXCEPT !.pc = "fat_store_ts"])
  /\ UNCHANGED <<upstream, calc, competitions_cache, clock, serving, lister_returned>>

\* lines 77 and 84, first statement: active_task_cache["data"] = ...
FatStoreData(p) ==
  /\ th[p].pc = "fat_store_data"
  /\ active_task_cache' = [active_task_cache EXCEPT !.data = th[p].active_task_info]
  /\ Set(p, [th[p] EXCEPT !.pc = "fat_store_ts"])
  /\ UNCHANGED <<upstream, calc, competitions_cache, clock, serving, lister_returned>>

\* lines 77 and 84, second statement: active_task_cache["timestamp"] = now
FatStoreTimestamp(p) ==
  /\ th[p].pc = "fat_store_ts"
  /\ active_task_cache' = [active_task_cache EXCEPT !.timestamp = th[p].now]
  /\ Set(p, [th[p] EXCEPT !.pc = "fat_ret"])
  /\ UNCHANGED <<upstream, calc, competitions_cache, clock, serving, lister_returned>>

(***************************************************************************)
(* fetch_and_parse_task_results, lines 90-114                              *)
(***************************************************************************)

\* str(e) of an exception raised while parsing (a sample)
ParserErrorText == <<"b","a","d"," ","m","a","r","k","u","p">>

fetch_and_parse_task_results(reply, competition_slug, task_number) ==
  IF reply.exc # "none"
  THEN ErrorResult(FetchErrorMessage(None, competition_slug, task_number))
  ELSE IF RaisesForStatus(reply.status)
  THEN ErrorResult(FetchErrorMessage(Some(reply.status), competition_slug, task_number))
  ELSE IF reply.broken
  THEN ErrorResult(CouldNotProcess \o ParserErrorText \o <<")">>)
  ELSE ParseResultTables(reply.body)

(***************************************************************************)
(* render_configuration_form, lines 141-190                                *)
(***************************************************************************)

\* lines 146-150: one option per competition, slug and name escaped
FormOptions(competitions) ==
  [i \in 1..Len(competitions) |->
     [value |-> HtmlEscape(competitions[i].slug), label |-> HtmlEscape(competitions[i].name)]]

\* the form page with its message (the messages hold no character html.escape changes)
FormPage(saved_pilot_id, message, competitions) ==
  [display |-> "form", color |-> "none", text |-> HtmlEscape(saved_pilot_id),
   context |-> <<>>, message |-> message, options |-> FormOptions(competitions)]

\* line 144: the form starts by calling fetch_competitions
RenderForm(t, message) ==
  [t EXCEPT !.pc = "fc_entry", !.fc_caller = "form", !.message = message]

\* lines 145-190, after fetch_competitions has returned
FormRender(p) ==
  /\ th[p].pc = "form_render"
  /\ Set(p, [th[p] EXCEPT
               !.pc = "done",
               !.response = Respond(200, FormPage(th[p].saved_pilot_id, th[p].message,
                                                  th[p].competitions), None)])
  /\ UNCHANGED <<upstream, calc, competitions_cache, active_task_cache, clock, serving, lister_returned>>

(***************************************************************************)
(* Requests                                                                *)
(***************************************************************************)

\* a request starts on an idle thread; unless concurrent, only when no other runs
CanStart(p, concurrent) ==
  /\ serving
  /\ th[p].pc = "idle"
  /\ concurrent \/ \A q \in Threads : th[q].pc = "idle"

\* GET /, lines 195-201 and 243-246
StartLanding(p, concurrent) ==
  /\ CanStart(p, concurrent)
  /\ \E cookie \in CookiePool :
       LET t == [th[p] EXCEPT !.route = "landing", !.saved_pilot_id = cookie,
                              !.start_comps = competitions_cache,
                              !.start_cache = active_task_cache]
       IN IF cookie # <<>>
          THEN Set(p, [t EXCEPT !.pc = "fat_entry"])
          ELSE Set(p, RenderForm(t, ""))
  /\ UNCHANGED <<upstream, calc, competitions_cache, active_task_cache, clock, serving, lister_returned>>

\* Response.set_cookie(COOKIE_NAME, value, ...): a value of None is no string and
\* raises in werkzeug; the exception leaves the view and Flask answers 500
SetCookie(response, value) ==
  IF value = None THEN InternalServerError ELSE [response EXCEPT !.cookie = value]

\* After line 262 the handler reads only search_mode, search_value and the input the
\* mode was taken from (line 308), and after line 269 never competition_slug or task:
\* the locals that are never read again are dropped from the state.
Proceed(t, search_mode, search_value) ==
  [t EXCEPT !.search_mode = search_mode, !.search_value = search_value,
            !.competition_slug = <<>>, !.task = <<>>,
            !.pilot_id_input = IF search_mode = "id" THEN @ ELSE <<>>,
            !.pilot_name_input = IF search_mode = "name" THEN @ ELSE <<>>]

\* GET /get_rank, lines 253-281
StartGetRank(p, concurrent) ==
  /\ CanStart(p, concurrent)
  /\ \E c \in CompetitionPool, k \in TaskPool, i \in PilotIdPool, n \in PilotNamePool :
       LET t == [th[p] EXCEPT !.route = "get_rank",
                              !.competition_slug = Strip(c), !.task = Strip(k),
                              !.pilot_id_input = Strip(i), !.pilot_name_input = Strip(n),
                              !.start_comps = competitions_cache,
                              !.start_cache = active_task_cache]
           search_mode == SearchMode(t.pilot_id_input, t.pilot_name_input)
           search_value == IF search_mode = "id" THEN t.pilot_id_input ELSE t.pilot_name_input
       IN IF search_mode = "none"
          THEN Set(p, [t EXCEPT !.pc = "done",
                                !.response = Respond(400,
                                   generate_html_page(<<>>, MissingInputMsg, <<>>, <<>>), None)])
          ELSE IF t.competition_slug # <<>> /\ t.task # <<>>
          THEN Set(p, [Proceed(t, search_mode, search_value) EXCEPT
                         !.pc = "gr_names",
                         !.comp_to_use = t.competition_slug, !.task_to_use = t.task])
          ELSE Set(p, [Proceed(t, search_mode, search_value) EXCEPT !.pc = "fat_entry"])
  /\ UNCHANGED <<upstream, calc, competitions_cache, active_task_cache, clock, serving, lister_returned>>

\* the locals of find_active_task and the history of its search end with the call
AfterFindActiveTask(t) ==
  [t EXCEPT !.now = 0, !.competitions = <<>>, !.comp_idx = 0, !.task_num = 0,
            !.entry_cache = Idle.entry_cache, !.probe = NoProbe, !.probes = 0]

\* find_active_task returns to its caller: lines 203-208 and 239-242, lines 275-281
FatReturn(p) ==
  /\ th[p].pc = "fat_ret"
  /\ LET info == th[p].active_task_info
         t == AfterFindActiveTask(th[p])
     IN IF info # None
        THEN Set(p, [t EXCEPT
                       !.pc = IF t.route = "landing" THEN "ld_fetch" ELSE "gr_names",
                       !.comp_to_use = info[1].competition_slug,
                       !.task_to_use = info[1].task_number])
        ELSE IF t.route = "landing"
        THEN Set(p, RenderForm(t,
               "Could not automatically find an active task. Please use manual selection."))
        ELSE Set(p, [t EXCEPT
                       !.pc = "done",
                       !.response = Respond(404,
                          generate_html_page(<<>>, NoActiveTaskMsg, <<>>, <<>>), None)])
  /\ UNCHANGED <<upstream, calc, competitions_cache, active_task_cache, clock, serving,
                 lister_returned>>

\* lines 284-287: the display name is read from the cache before the fetch
GrNames(p) ==
  /\ th[p].pc = "gr_names"
  /\ Set(p, [th[p] EXCEPT
               !.pc = "gr_fetch",
               !.competition_display_name = DisplayName(competitions_cache, th[p].comp_to_use)])
  /\ UNCHANGED <<upstream, calc, competitions_cache, active_task_cache, clock, serving, lister_returned>>

\* lines 303-317: the response for the outcome of the scan, then the cookie
RankResponse(t, found) ==
  IF found # None
  THEN SetCookie(Respond(200,
                    generate_html_page(found[1].rank, <<>>, t.competition_display_name,
                                       t.task_to_use), None),
                 Some(found[1].id))
  ELSE LET error_msg == IF t.search_mode = "id"
                        THEN PilotWithId \o HtmlEscape(t.pilot_id_input) \o QuoteNotFound
                        ELSE PilotNamed \o HtmlEscape(t.pilot_name_input) \o QuoteNotFound
       IN SetCookie(Respond(404,
                       generate_html_page(<<>>, error_msg, t.competition_display_name,
                                          t.task_to_use), None),
                    None)

\* lines 289-293: the error page for a str result
ErrorResponse(t, results_data) ==
  Respond(ErrorStatus(results_data),
          generate_html_page(<<>>, RemoveAll(results_data.text, ErrorPrefix),
                             t.competition_display_name, t.task_to_use),
          None)

\* lines 289-317: GET of the task page, parse, scan, respond
GrFetch(p) ==
  /\ th[p].pc = "gr_fetch"
  /\ \E reply \in ResultAnswers(upstream, th[p].comp_to_use, th[p].task_to_use) :
       LET results_data == fetch_and_parse_task_results(reply, th[p].comp_to_use,
                                                        th[p].task_to_use)
           t == [th[p] EXCEPT !.pc = "done", !.got = reply, !.fetched = @ \cup {"result"}]
       IN IF IsErrorResult(results_data)
          THEN Set(p, [t EXCEPT !.response = ErrorResponse(t, results_data)])
          ELSE LET found == FindPilot(results_data.rows, t.search_mode, t.search_value)
               IN Set(p, [t EXCEPT !.found = found, !.response = RankResponse(t, found)])
  /\ UNCHANGED <<upstream, calc, competitions_cache, active_task_cache, clock, serving, lister_returned>>

\* lines 208-237: GET of the active task's page, scan for the cookie's id
LdFetch(p) ==
  /\ th[p].pc = "ld_fetch"
  /\ \E reply \in ResultAnswers(upstream, th[p].comp_to_use, th[p].task_to_use) :
       LET results_data == fetch_and_parse_task_results(reply, th[p].comp_to_use,
                                                        th[p].task_to_use)
           t == [th[p] EXCEPT !.got = reply, !.fetched = @ \cup {"result"}]
       IN IF IsErrorResult(results_data)
          THEN Set(p, RenderForm(t,
                 "Error loading data for the active task. Please use manual selection."))
          ELSE LET found == FindPilot(results_data.rows, "id", t.saved_pilot_id)
               IN IF found # None /\ found[1].rank # <<>>
                  THEN Set(p, [t EXCEPT
                         !.pc = "done", !.found = found,
                         !.competition_display_name =
                            DisplayName(competitions_cache, t.comp_to_use),
                         !.response = Respond(200,
                            generate_html_page(found[1].rank, <<>>,
                               DisplayName(competitions_cache, t.comp_to_use),
                               t.task_to_use), None)])
                  ELSE Set(p, RenderForm([t EXCEPT !.found = found],
                         "Your saved ID was not found in the current active task. Please check ID or use manual selection."))
  /\ UNCHANGED <<upstream, calc, competitions_cache, active_task_cache, clock, serving, lister_returned>>

\* the response is sent; the thread is free again
Finish(p) ==
  /\ th[p].pc = "done"
  /\ Set(p, Idle)
  /\ UNCHANGED <<upstream, calc, competitions_cache, active_task_cache, clock, serving, lister_returned>>

(***************************************************************************)
(* Specification: one thread serves the requests, one at a time            *)
(***************************************************************************)

Next ==
  \/ Serve
  \/ Tick
  \/ \E p \in {1} :
       \/ Main(p)
       \/ MainDone(p)
       \/ StartLanding(p, FALSE)
       \/ StartGetRank(p, FALSE)
       \/ FcEntry(p)
       \/ FcGet(p)
       \/ FcStore(p)
       \/ FatEntry(p)
       \/ FatComps(p)
       \/ FatProbe(p)
       \/ FatStoreData(p)
       \/ FatStoreTimestamp(p)
       \/ FatReturn(p)
       \/ GrNames(p)
       \/ GrFetch(p)
       \/ LdFetch(p)
       \/ FormRender(p)
       \/ Finish(p)

Spec == Init /\ [][Next]_vars

(***************************************************************************)
(* Specification: the threads of the server handle requests concurrently   *)
(* against a site that does not change. Each read and each write of a      *)
(* module global is a step of its own. The requests are those of GET /,    *)
(* which reaches find_active_task (with a cookie) and fetch_competitions   *)
(* (the form); GET /get_rank reaches find_active_task by the same call and *)
(* writes no global.                                                       *)
(***************************************************************************)

\* line 34, the test: competitions_cache is not None
FcTest(p) ==
  /\ th[p].pc = "fc_entry"
  /\ Set(p, [th[p] EXCEPT
               !.pc = IF CompetitionsCached(competitions_cache) THEN "fc_ret" ELSE "fc_get"])
  /\ UNCHANGED <<upstream, calc, competitions_cache, active_task_cache, clock, serving,
                 lister_returned>>

\* lines 49-50: the assignment to the global
FcStoreWrite(p) ==
  /\ th[p].pc = "fc_store"
  /\ competitions_cache' = Some(th[p].competitions)
  /\ Set(p, [th[p] EXCEPT !.pc = "fc_ret"])
  /\ UNCHANGED <<upstream, calc, active_task_cache, clock, serving, lister_returned>>

\* lines 34 and 51: return competitions_cache, the global is read again
FcReturnCache(p) ==
  /\ th[p].pc = "fc_ret"
  /\ Set(p, [th[p] EXCEPT !.pc = AfterFetchCompetitions(th[p].fc_caller),
                          !.competitions = IF competitions_cache = None
                                           THEN <<>> ELSE competitions_cache[1]])
  /\ lister_returned' = TRUE
  /\ UNCHANGED <<upstream, calc, competitions_cache, active_task_cache, clock, serving>>

\* line 57: now = time.time()
FatNow(p) ==
  /\ th[p].pc = "fat_entry"
  /\ Set(p, [th[p] EXCEPT !.pc = "fat_test_data", !.now = clock,
                          !.entry_cache = active_task_cache])
  /\ UNCHANGED <<upstream, calc, competitions_cache, active_task_cache, clock, serving,
                 lister_returned>>

\* where find_active_task goes on when line 58 is false
StartSearch(t) == [t EXCEPT !.pc = "fc_entry", !.fc_caller = "find_active_task"]

\* line 58, left operand: active_task_cache["data"] is read and tested
FatTestData(p) ==
  /\ th[p].pc = "fat_test_data"
  /\ IF active_task_cache.data # None
     THEN Set(p, [th[p] EXCEPT !.pc = "fat_test_ts"])
     ELSE Set(p, StartSearch(th[p]))
  /\ UNCHANGED <<upstream, calc, competitions_cache, active_task_cache, clock, serving,
                 lister_returned>>

\* line 58, right operand: active_task_cache["timestamp"] is read and compared
FatTestTimestamp(p) ==
  /\ th[p].pc = "fat_test_ts"
  /\ IF th[p].now - active_task_cache.timestamp < AUTO_SEARCH_CACHE_DURATION
     THEN Set(p, [th[p] EXCEPT !.pc = "fat_ret_cache"])
     ELSE Set(p, StartSearch(th[p]))
  /\ UNCHANGED <<upstream, calc, competitions_cache, active_task_cache, clock, serving,
                 lister_returned>>

\* line 59: return active_task_cache["data"], the global is read again
FatReturnCache(p) ==
  /\ th[p].pc = "fat_ret_cache"
  /\ Set(p, [th[p] EXCEPT !.pc = "fat_ret", !.active_task_info = active_task_cache.data])
  /\ UNCHANGED <<upstream, calc, competitions_cache, active_task_cache, clock, serving,
                 lister_returned>>

\* the anchor of the root page that leads to href
LinkTo(href) == CHOOSE l \in LinkPool : Strip(l.href) = href \/ l.href = href \o <<"/">>

RootWith(links) == Reply("none", 200, FALSE, links)

\* a task page whose only heading is text
PageWith(text) == Reply("none", 200, FALSE, << <<text>> >>)

PageTask1Only == PageWith(TaskWord \o <<"1">>)

PageTask1Active == PageWith(TaskWord \o <<"1"," ">> \o InProgressMarker)

PageTask2Active == PageWith(TaskWord \o <<"2"," ">> \o InProgressMarker)

\* the sites the threads run against
SitePool ==
  { \* the root does not answer
    Site(Reply("timeout", 0, FALSE, <<>>), <<>>, <<>>),
    \* the root lists no competition
    Site(RootWith(<<>>), <<>>, <<>>),
    \* bern (listed first): task 1 answers 500, task 2 is in progress
    Site(RootWith(<<LinkTo(SlugAlps), LinkTo(SlugBern)>>),
         (SlugBern :> <<Reply("none", 500, FALSE, <<>>), PageTask2Active>>)
           @@ (SlugAlps :> <<PageTask1Active>>),
         << <<HeaderRow>>, <<HeaderRow, RowAl1>> >>),
    \* bern has no task, task 1 of alps is in progress
    Site(RootWith(<<LinkTo(SlugBern), LinkTo(SlugAlps)>>),
         (SlugBern :> <<>>) @@ (SlugAlps :> <<PageTask1Active>>),
         << <<HeaderRow>>, <<RowBo50>> >>),
    \* no task is in progress: bern times out on task 1, alps has a finished task 1
    Site(RootWith(<<LinkTo(SlugAlps), LinkTo(SlugBern)>>),
         (SlugBern :> <<Reply("timeout", 0, FALSE, <<>>)>>) @@ (SlugAlps :> <<PageTask1Only>>),
         << <<HeaderRow>>, <<HeaderRow, RowAl1>> >>) }

InitConc ==
  /\ competitions_cache = None
  /\ active_task_cache = [data |-> None, timestamp |-> 0]
  /\ clock = StartTime
  /\ serving = FALSE
  /\ lister_returned = FALSE
  /\ th = [p \in Threads |-> Idle]
  /\ calc = NoCalc
  /\ upstream \in SitePool

NextConc ==
  \/ Serve
  \/ Tick
  \/ \E p \in Threads :
       \/ Main(p)
       \/ MainDone(p)
       \/ StartLanding(p, TRUE)
       \/ FcTest(p)
       \/ FcGet(p)
       \/ FcStoreWrite(p)
       \/ FcReturnCache(p)
       \/ FatNow(p)
       \/ FatTestData(p)
       \/ FatTestTimestamp(p)
       \/ FatReturnCache(p)
       \/ FatComps(p)
       \/ FatProbe(p)
       \/ FatStoreData(p)
       \/ FatStoreTimestamp(p)
       \/ FatReturn(p)
       \/ LdFetch(p)
       \/ FormRender(p)
       \/ Finish(p)

SpecConc == InitConc /\ [][NextConc]_vars

(***************************************************************************)
(* Specification: the searches of GET /, one request at a time, with the   *)
(* GETs of task pages counted. A thread that runs goes on running, and     *)
(* every GET ends, by a reply or by its timeout (lines 38 and 68).         *)
(***************************************************************************)

\* a step of a call of find_active_task
SearchStep ==
  \E p \in {1} :
    \/ FatEntry(p)
    \/ FcEntry(p)
    \/ FcGet(p)
    \/ FcStore(p)
    \/ FatComps(p)
    \/ FatProbeCounted(p)
    \/ FatStoreData(p)
    \/ FatStoreTimestamp(p)

NextSearch ==
  \/ Serve
  \/ Tick
  \/ \E p \in {1} :
       \/ Main(p)
       \/ MainDone(p)
       \/ StartLanding(p, FALSE)
       \/ FcEntry(p)
       \/ FcGet(p)
       \/ FcStore(p)
       \/ FatEntry(p)
       \/ FatComps(p)
       \/ FatProbeCounted(p)
       \/ FatStoreData(p)
       \/ FatStoreTimestamp(p)
       \/ FatReturn(p)
       \/ LdFetch(p)
       \/ FormRender(p)
       \/ Finish(p)

SpecSearch == Init /\ [][NextSearch]_vars /\ WF_vars(SearchStep)

(***************************************************************************)
(* Specification of the pure functions: the parser and the renderer are    *)
(* applied to inputs drawn from bounded sets                               *)
(***************************************************************************)

\* a result table has at most MaxRows rows
MaxRows == 3

\* a rank text has at most MaxRankLen characters
MaxRankLen == 3

RowThData == Row(TRUE, <<Cell(<<"3">>), Cell(Id7), Cell(<<"C","y">>)>>)

RowPool == {HeaderRow, RowAl1, RowBo50, RowNoRank, RowShort, RowThData}

\* the class 'result' tables of a page: none, one, or a first table and any second
ParseInputs ==
  {<<>>, << <<HeaderRow, RowAl1>> >>}
    \cup {<< <<HeaderRow>>, second >> : second \in SeqsUpTo(RowPool, MaxRows)}

RankChars == {"0", "1", "4", "5", "9", "-", "_", "D"}

\* a rank is the stripped, non-empty text of a cell
RankInputs == {r \in SeqsUpTo(RankChars, MaxRankLen) : r # <<>>}

\* the input is drawn: a page to parse or a rank to render
InitPure ==
  /\ competitions_cache = None
  /\ active_task_cache = [data |-> None, timestamp |-> 0]
  /\ clock = StartTime
  /\ serving = FALSE
  /\ lister_returned = FALSE
  /\ th = [p \in Threads |-> Idle]
  /\ upstream = AnyUpstream
  /\ calc \in {[NoCalc EXCEPT !.fn = "parse-call", !.tables = tables] : tables \in ParseInputs}
              \cup {[NoCalc EXCEPT !.fn = "render-call", !.rank = rank] : rank \in RankInputs}

\* lines 99-114 applied to a page that arrived
ApplyParse ==
  /\ calc.fn = "parse-call"
  /\ calc' = [calc EXCEPT
                !.fn = "parse",
                !.result = fetch_and_parse_task_results(Reply("none", 200, FALSE, calc.tables),
                                                        SlugAlps, <<"1">>)]
  /\ UNCHANGED <<upstream, competitions_cache, active_task_cache, clock, serving,
                 lister_returned, th>>

\* lines 119-137 applied to a rank
ApplyRender ==
  /\ calc.fn = "render-call"
  /\ calc' = [calc EXCEPT
                !.fn = "render",
                !.page = generate_html_page(calc.rank, <<>>, SlugAlps, <<"1">>)]
  /\ UNCHANGED <<upstream, competitions_cache, active_task_cache, clock, serving,
                 lister_returned, th>>

NextPure == ApplyParse \/ ApplyRender

SpecPure == InitPure /\ [][NextPure]_vars

(***************************************************************************)
(* Properties of the caches                                                *)
(***************************************************************************)

\* find_active_task has returned on thread p and its caller has not yet gone on
Returned(p) == th[p].pc = "fat_ret"

\* the age, at the entry of the call, of the cache entry the call found
EntryAge(p) == th[p].now - th[p].entry_cache.timestamp

\* the call on thread p found the result of a search without match: line 84 alone
\* stores no data with a timestamp of the clock
FoundNoMatchEntry(p) ==
  th[p].entry_cache.data = None /\ th[p].entry_cache.timestamp # 0

\* C1: a call of find_active_task made less than the TTL after a search that ended
\* without match returns absent and issues no outbound fetch.
C1_NoMatchIsCached ==
  \A p \in Threads :
    (Returned(p) /\ FoundNoMatchEntry(p) /\ EntryAge(p) < AUTO_SEARCH_CACHE_DURATION)
      => (th[p].active_task_info = None /\ th[p].fetched = {})

\* C2: after a search that found a task at time t, a call at now with now - t < TTL
\* returns the cached task without any outbound fetch; a call with now - t >= TTL
\* probes upstream again, and a task it returns is one its own last probe found.
C2_CachedTaskWithinTtl ==
  \A p \in Threads :
    (Returned(p) /\ th[p].entry_cache.data # None)
      => IF EntryAge(p) < AUTO_SEARCH_CACHE_DURATION
         THEN th[p].active_task_info = th[p].entry_cache.data /\ th[p].fetched = {}
         ELSE /\ "probe" \in th[p].fetched
              /\ th[p].active_task_info # None
                   => /\ th[p].probe.reply.exc = "none"
                      /\ th[p].probe.reply.status = 200
                      /\ PageShowsActive(th[p].probe.reply.body, th[p].probe.task_num)
                      /\ th[p].active_task_info =
                           Some([competition_slug |-> th[p].probe.slug,
                                 task_number |-> IntToStr(th[p].probe.task_num)])

\* C2 witness: a call one second short of the TTL is served the cached task
C2_Witness ==
  \E p \in Threads :
    /\ Returned(p)
    /\ th[p].entry_cache.data # None
    /\ EntryAge(p) = AUTO_SEARCH_CACHE_DURATION - 1
    /\ th[p].active_task_info = th[p].entry_cache.data
    /\ th[p].fetched = {}

\* a step in which some thread issues the GET of the site root
RootFetchStep == \E p \in Threads : th[p].pc = "fc_get" /\ th'[p].pc # "fc_get"

\* a step in which fetch_competitions returns on thread p at line 34
CachedReturnStep(p) == th[p].pc = "fc_entry" /\ th'[p].pc \notin {"fc_entry", "fc_get"}

\* C3 as stated: once a call of fetch_competitions has returned, whatever its
\* outcome, no later call fetches the site root.
C3_NoFetchAfterAnyReturn == [][lister_returned => ~RootFetchStep]_vars

\* C3 amended: once a call has stored its list (empty or not), the cache keeps that
\* list, every later call returns it, and no later call fetches the site root.
C3_NoFetchOnceStored ==
  [][competitions_cache # None
       => /\ ~RootFetchStep
          /\ competitions_cache' = competitions_cache
          /\ \A p \in Threads :
               CachedReturnStep(p) => th'[p].competitions = competitions_cache[1]]_vars

\* C3 witness: the form's call is served an empty list from the cache, no root fetch
C3_Witness ==
  \E p \in Threads :
    /\ th[p].pc = "form_render"
    /\ competitions_cache = Some(<<>>)
    /\ th[p].competitions = <<>>
    /\ "root" \notin th[p].fetched

(***************************************************************************)
(* Properties of GET /get_rank                                             *)
(***************************************************************************)

\* thread p has answered a /get_rank request
Answered(p) == th[p].pc = "done" /\ th[p].route = "get_rank"

\* thread p has answered a /get_rank request after the GET of the task page
AnsweredAfterFetch(p) == Answered(p) /\ "result" \in th[p].fetched

\* the GET of the task page was answered with the HTTP status
GotStatus(p, status) == th[p].got.exc = "none" /\ th[p].got.status = status

\* a data row whose rank, id and name cells hold text
ValidDataRow(row) ==
  /\ ~row.th
  /\ Len(row.cells) >= 3
  /\ \A j \in 1..3 : GetText(row.cells[j], <<>>) # <<>>

\* the page arrived and parsed, but has fewer than two result tables or no valid row
GotFormatError(p) ==
  /\ GotStatus(p, 200)
  /\ ~th[p].got.broken
  /\ \/ Len(th[p].got.body) < 2
     \/ \A i \in 1..Len(th[p].got.body[2]) : ~ValidDataRow(th[p].got.body[2][i])

\* the GET failed otherwise than by a 404: no response, or another error status
GotOtherFetchError(p) ==
  \/ th[p].got.exc \in {"timeout", "connection"}
  \/ th[p].got.exc = "none" /\ th[p].got.status >= 400 /\ th[p].got.status # 404

\* C4: when the task page answers 404, /get_rank answers 404 with an error message
\* that names the task number and the competition.
C4_TaskPage404 ==
  \A p \in Threads :
    (AnsweredAfterFetch(p) /\ GotStatus(p, 404))
      => /\ th[p].response.status = 404
         /\ th[p].response.page.display = "error-display"
         /\ Contains(th[p].response.page.text, HtmlEscape(th[p].task_to_use))
         /\ Contains(th[p].response.page.text, HtmlEscape(th[p].comp_to_use))

\* C5: a /get_rank request whose page has a format error, or whose fetch failed
\* otherwise than by a 404, is answered with status 500.
C5_FormatAndFetchErrorsAre500 ==
  \A p \in Threads :
    (AnsweredAfterFetch(p) /\ (GotFormatError(p) \/ GotOtherFetchError(p)))
      => th[p].response.status = 500

\* C6: a /get_rank request with neither pilot id nor pilot name after trimming is
\* answered 400, issues no fetch and leaves both caches as they were.
C6_MissingPilotInput ==
  \A p \in Threads :
    (Answered(p) /\ th[p].pilot_id_input = <<>> /\ th[p].pilot_name_input = <<>>)
      => /\ th[p].response.status = 400
         /\ th[p].fetched = {}
         /\ competitions_cache = th[p].start_comps
         /\ active_task_cache = th[p].start_cache

\* C6 witness: such a request with competition and task given, a task being cached
C6_Witness ==
  \E p \in Threads :
    /\ Answered(p)
    /\ th[p].pilot_id_input = <<>> /\ th[p].pilot_name_input = <<>>
    /\ th[p].competition_slug # <<>> /\ th[p].task # <<>>
    /\ th[p].response.status = 400
    /\ active_task_cache.data # None
    /\ competitions_cache # None

\* the pilots of the page thread p fetched, in row order
PilotsGot(p) ==
  LET valid == SelectSeq(th[p].got.body[2], ValidDataRow)
  IN [i \in 1..Len(valid) |-> PilotOfRow(valid[i])]

\* row i matches the search of thread p
RowMatches(p, i) ==
  IF th[p].search_mode = "id"
  THEN PilotsGot(p)[i].id = th[p].search_value
  ELSE Lower(Strip(PilotsGot(p)[i].name)) = Lower(Strip(th[p].search_value))

\* C8: the lookup returns the first row, in row order, whose id equals the search
\* value (id mode) or whose name equals it ignoring case and outer whitespace (name
\* mode): the request is answered 200 with that row's rank, and 404 when no row matches.
C8_RankLookup ==
  \A p \in Threads :
    (AnsweredAfterFetch(p) /\ GotStatus(p, 200) /\ ~th[p].got.broken /\ ~GotFormatError(p))
      => IF \E i \in 1..Len(PilotsGot(p)) : RowMatches(p, i)
         THEN LET first == CHOOSE i \in 1..Len(PilotsGot(p)) :
                             /\ RowMatches(p, i)
                             /\ \A j \in 1..(i - 1) : ~RowMatches(p, j)
              IN /\ th[p].response.status = 200
                 /\ th[p].response.page.display = "rank-display"
                 /\ th[p].response.page.text = HtmlEscape(PilotsGot(p)[first].rank)
         ELSE th[p].response.status = 404

(***************************************************************************)
(* Properties of the search for the active task                            *)
(***************************************************************************)

\* the reply is a 404 response
IsNotFound(reply) == reply.exc = "none" /\ reply.status = 404

\* the reply is a page with a heading that holds "Task n" and the marker
IsActivePage(reply, n) ==
  /\ reply.exc = "none" /\ reply.status = 200 /\ ~reply.broken
  /\ \E i \in 1..Len(reply.body) :
       LET text == GetText(reply.body[i], <<" ">>)
       IN Contains(text, TaskWord \o IntToStr(n)) /\ Contains(text, InProgressMarker)

\* thread p has probed in its search
HasProbed(p) == th[p].probe.reply.exc # "unsent"

\* the place, in the list of the search, of the competition last probed
ProbedIdx(p) ==
  CHOOSE i \in 1..Len(th[p].competitions) : th[p].competitions[i].slug = th[p].probe.slug

\* C10: the search probes the competitions in list order and the tasks 1..15 in
\* ascending order; after a 404 at task n it goes to task 1 of the next competition,
\* after any other failure or a page without match to task n + 1 (the next
\* competition after task 15); a page with the heading of task n ends the search
\* with (competition, n), and the search ends without task only after the last
\* competition's 404 or task 15.
C10_ProbeOrder ==
  \A p \in Threads :
    /\ th[p].pc = "fat_probe" =>
         /\ th[p].comp_idx \in 1..Len(th[p].competitions)
         /\ th[p].task_num \in 1..MAX_TASKS_TO_CHECK
         /\ IF ~HasProbed(p)
            THEN th[p].comp_idx = 1 /\ th[p].task_num = 1
            ELSE /\ ~IsActivePage(th[p].probe.reply, th[p].probe.task_num)
                 /\ IF IsNotFound(th[p].probe.reply) \/ th[p].probe.task_num = MAX_TASKS_TO_CHECK
                    THEN th[p].comp_idx = ProbedIdx(p) + 1 /\ th[p].task_num = 1
                    ELSE th[p].comp_idx = ProbedIdx(p) /\ th[p].task_num = th[p].probe.task_num + 1
    /\ (th[p].pc \in {"fat_store_data", "fat_store_ts", "fat_ret"} /\ HasProbed(p)) =>
         IF IsActivePage(th[p].probe.reply, th[p].probe.task_num)
         THEN th[p].active_task_info =
                Some([competition_slug |-> th[p].probe.slug,
                      task_number |-> IntToStr(th[p].probe.task_num)])
         ELSE /\ th[p].active_task_info = None
              /\ ProbedIdx(p) = Len(th[p].competitions)
              /\ IsNotFound(th[p].probe.reply) \/ th[p].probe.task_num = MAX_TASKS_TO_CHECK

\* C10 witness: a 404 at a later task of the first competition has moved the search
\* to task 1 of the second, and elsewhere a timeout only moved it to the next task
C10_Witness ==
  \E p \in Threads :
    /\ th[p].pc = "fat_probe"
    /\ th[p].comp_idx = 2 /\ th[p].task_num = 1
    /\ IsNotFound(th[p].probe.reply)
    /\ th[p].probe.task_num > 1

(***************************************************************************)
(* Properties of the parser and the renderer                               *)
(***************************************************************************)

\* the parser was applied to a page with two result tables, a valid row in the second
ParsedValidPage ==
  /\ calc.fn = "parse"
  /\ Len(calc.tables) >= 2
  /\ \E i \in 1..Len(calc.tables[2]) : ValidDataRow(calc.tables[2][i])

\* C7 as stated: the result is a non-empty sequence as long as the second table has
\* data rows (no header cell) with 3 or more non-empty cells.
C7_LengthCountsNonEmptyCells ==
  ParsedValidPage
    => /\ ~calc.result.str
       /\ calc.result.rows # <<>>
       /\ Len(calc.result.rows) =
            Cardinality({i \in 1..Len(calc.tables[2]) :
                           ~calc.tables[2][i].th /\ NonEmptyCells(calc.tables[2][i]) >= 3})

\* C7 amended: the result is the non-empty sequence, in row order, of the data rows
\* (no header cell) with 3 or more cells whose first three cells are all non-empty.
C7_RowsAreValidRowsInOrder ==
  ParsedValidPage
    => LET valid == SelectSeq(calc.tables[2], ValidDataRow)
       IN /\ ~calc.result.str
          /\ calc.result.rows # <<>>
          /\ calc.result.rows = [i \in 1..Len(valid) |-> PilotOfRow(valid[i])]

\* C7 witness: a row with three non-empty cells but an empty rank cell is left out
C7_Witness ==
  /\ ParsedValidPage
  /\ Len(calc.tables[2]) = 3
  /\ \E i \in 1..3 : calc.tables[2][i] = RowNoRank
  /\ Len(calc.result.rows) = 2

\* C9 as stated: an integer rank is coloured by its value (1 gold, 2..49 limegreen,
\* 50 and more red) and only a rank that is no integer gets the default colour.
C9_DefaultOnlyForNonNumeric ==
  calc.fn = "render"
    => LET r == ParseInt(calc.rank)
       IN /\ (r.ok /\ r.val = 1) => calc.page.color = "gold"
          /\ (r.ok /\ r.val >= 2 /\ r.val <= 49) => calc.page.color = "limegreen"
          /\ (r.ok /\ r.val >= 50) => calc.page.color = "red"
          /\ calc.page.color = "black" <=> ~r.ok

\* C9 amended: as stated, but the default colour is used for a rank that is no
\* integer and also for an integer rank of 0 or less.
C9_DefaultForNonNumericOrNonPositive ==
  calc.fn = "render"
    => LET r == ParseInt(calc.rank)
       IN /\ calc.page.display = "rank-display"
          /\ (r.ok /\ r.val = 1) => calc.page.color = "gold"
          /\ (r.ok /\ r.val >= 2 /\ r.val <= 49) => calc.page.color = "limegreen"
          /\ (r.ok /\ r.val >= 50) => calc.page.color = "red"
          /\ calc.page.color = "black" <=> (~r.ok \/ r.val <= 0)

\* C9 witness: the integer rank 0 is rendered in the default colour
C9_Witness ==
  /\ calc.fn = "render"
  /\ calc.rank = <<"0">>
  /\ calc.page.color = "black"

(***************************************************************************)
(* Properties of concurrent requests                                       *)
(***************************************************************************)

\* the GET of the site root fails: fetch_competitions falls to line 52
RootFails(reply) == reply.exc # "none" \/ reply.status >= 400 \/ reply.broken

\* what a lone call of fetch_competitions returns against the site u
SeqList(u) == IF RootFails(u.root) THEN <<>> ELSE ExtractCompetitions(u.root.body)

\* what calls of fetch_competitions, one after the other, leave in the cache
SeqListCache(u) == IF RootFails(u.root) THEN None ELSE Some(SeqList(u))

\* the places (competition, task) of the list where a lone search of the site u would
\* find a task in progress: the page shows it and no earlier task of the competition
\* answers 404
SeqHits(u, list) ==
  {h \in (1..Len(list)) \X (1..MAX_TASKS_TO_CHECK) :
     /\ IsActivePage(PageReply(u, list[h[1]].slug, h[2]), h[2])
     /\ \A m \in 1..(h[2] - 1) : ~IsNotFound(PageReply(u, list[h[1]].slug, m))}

\* what a lone call of find_active_task returns against the site u: the first hit
SeqActive(u) ==
  LET list == SeqList(u)
      hits == SeqHits(u, list)
  IN IF hits = {} THEN None
     ELSE LET first == CHOOSE h \in hits :
                         \A g \in hits : h[1] < g[1] \/ (h[1] = g[1] /\ h[2] <= g[2])
          IN Some([competition_slug |-> list[first[1]].slug,
                   task_number |-> IntToStr(first[2])])

\* thread p is inside a call of fetch_competitions
InFetchCompetitions(p) == th[p].pc \in {"fc_entry", "fc_get", "fc_store", "fc_ret"}

\* thread p is inside a call of find_active_task
InFindActiveTask(p) ==
  \/ th[p].pc \in {"fat_entry", "fat_test_data", "fat_test_ts", "fat_ret_cache", "fat_comps",
                   "fat_probe", "fat_store_data", "fat_store_ts"}
  \/ InFetchCompetitions(p) /\ th[p].fc_caller = "find_active_task"

\* fetch_competitions has returned on thread p and its caller has not yet gone on
ListReturned(p) == th[p].pc \in {"fat_comps", "form_render", "main_done"}

\* C11: against a site that does not change, under every interleaving of the threads,
\* each call of fetch_competitions and of find_active_task returns what a lone call
\* returns, and once no call is running the caches hold the list and the task that
\* calls made one after the other leave there.
C11_ConcurrentCallsAsSequential ==
  /\ \A p \in Threads : ListReturned(p) => th[p].competitions = SeqList(upstream)
  /\ \A p \in Threads : Returned(p) => th[p].active_task_info = SeqActive(upstream)
  /\ ((\E p \in Threads : ListReturned(p)) /\ (\A q \in Threads : ~InFetchCompetitions(q)))
       => competitions_cache = SeqListCache(upstream)
  /\ ((\E p \in Threads : Returned(p)) /\ (\A q \in Threads : ~InFindActiveTask(q)))
       => active_task_cache.data = SeqActive(upstream)

\* C11 witness: two threads have searched at once, each fetched the root and probed,
\* and both return the task in progress, found after a probe that failed
C11_Witness ==
  \E p, q \in Threads :
    /\ p # q
    /\ Returned(p) /\ Returned(q)
    /\ {"root", "probe"} \subseteq th[p].fetched
    /\ {"root", "probe"} \subseteq th[q].fetched
    /\ th[p].active_task_info = SeqActive(upstream)
    /\ th[q].active_task_info = th[p].active_task_info
    /\ th[p].active_task_info # None
    /\ th[p].active_task_info[1].task_number = <<"2">>
    /\ active_task_cache.data = th[p].active_task_info

(***************************************************************************)
(* Properties of the length of a search                                    *)
(***************************************************************************)

\* the place of the page last probed by t: its competition's place in the list of the
\* search, then its task number
ProbedPlace(t) ==
  << CHOOSE i \in 1..Len(t.competitions) : t.competitions[i].slug = t.probe.slug,
     t.probe.task_num >>

\* place a comes before place b
PlaceBefore(a, b) == a[1] < b[1] \/ (a[1] = b[1] /\ a[2] < b[2])

\* the task pages fetched so far by the search of thread p are no more than 15 for
\* each competition of its list
WithinProbeBudget(p) == th[p].probes <= Len(th[p].competitions) * MAX_TASKS_TO_CHECK

\* a step in which the search of thread p fetches a task page, not its first
LaterProbeStep(p) == th'[p].probes = th[p].probes + 1 /\ th[p].probes > 0

\* C12: every search ends (no thread stays inside find_active_task for ever); while it
\* runs it has fetched at most 15 task pages for each competition of its list, whatever
\* the replies; and no page is fetched twice, each probe being of a page that comes
\* after the page probed before.
C12_SearchEndsWithinBudget ==
  /\ [](\A p \in Threads : WithinProbeBudget(p))
  /\ [][\A p \in Threads :
          LaterProbeStep(p) => PlaceBefore(ProbedPlace(th[p]), ProbedPlace(th'[p]))]_vars
  /\ \A p \in Threads : []<>(~InFindActiveTask(p))

\* C12 witness: a search over two competitions has returned without a task after the
\* 30 probes of tasks 1..15 of both
C12_Witness ==
  \E p \in Threads :
    /\ Returned(p)
    /\ Len(th[p].competitions) = 2
    /\ th[p].probes = 2 * MAX_TASKS_TO_CHECK
    /\ th[p].active_task_info = None
    /\ th[p].probe.task_num = MAX_TASKS_TO_CHECK

====
